---- MODULE Spec2Model ----
(***************************************************************************)
(* ClipCraft download server: the download queue (POST /queue/add,         *)
(* GET /queue/status, DELETE /queue/:id), its drain loop processQueue,     *)
(* downloadVideo and the legacy POST /download; further down POST /clip,   *)
(* POST /transcribe and its caption formatting.                            *)
(*                                                                         *)
(* Node runs every HTTP handler and every child-process event callback to  *)
(* completion, followed by the promise continuations it made runnable,     *)
(* before the next callback starts.  One action below is therefore one     *)
(* callback together with the continuation of `await downloadVideo(item)`  *)
(* that it resumes, up to the next await.                                  *)
(*                                                                         *)
(* Job objects are heap objects: `items` is the heap, a job object is its  *)
(* allocation number, and downloadQueue / currentDownload / the closures   *)
(* of downloadVideo hold such numbers.  The heap holds the objects the     *)
(* program can still reach; `done` shows the object the drain loop settled *)
(* in the last step, and `started` / `cancelled` are history.  The title   *)
(* and addedAt fields are written once and never read by the server; they  *)
(* are left out.  The url field is kept as "submitted" or "local" (the     *)
(* rewrite of the close handler).                                          *)
(***************************************************************************)
EXTENDS Integers, Sequences, FiniteSets, TLC

\* Bounds of the model.
MaxJobs == 2      \* job objects ever created by /queue/add and /download
MaxJobsFifo == 3  \* the same, where the order of three jobs is at stake
MaxTime == 1    \* Date.now() takes the values 0..MaxTime

\* `null` of `let currentDownload = null`; job objects are 1, 2, ...
Null == 0

\* The two server builds of the repository: the TypeScript server and the
\* JavaScript server.js.
Servers == {"ts", "js"}

\* Request bodies' url, by the class the validation distinguishes:
\* undefined, a truthy non-string (42), a string `new URL` rejects, a URL.
UrlInputs == {"missing", "nonstring", "malformed", "valid"}
Truthy(u) == u # "missing"
IsString(u) == u \in {"malformed", "valid"}
ParsesAsURL(u) == u = "valid"

\* Percentages yt-dlp prints, and the exit codes of its close event.
Pcts == {50}
ExitCodes == {0, 1}

\* A stdout chunk: the percentages `<digits>[.<digits>]%` it contains, in
\* order, and whether it contains 'Destination:' or 'Merging'.
\* (A chunk that repeats one percentage acts as one that holds it once.)
Chunks == [pcts : {<<>>} \cup {<<a>> : a \in Pcts}
                         \cup {p \in Pcts \X Pcts : p[1] # p[2]},
           marker : BOOLEAN]

NoFile == <<>>
VideoName(id) == <<"video_", id, ".mp4">>
NoError == ""
ExitMessage(code) == <<"Download failed with code ", code>>
SpawnMessage == <<"spawn ENOENT">>
NoResp == [op |-> "none", code |-> 0, body |-> <<>>]
NoItem == <<>>

VARIABLES
    server,           \* which build is running
    now,              \* Date.now()
    created,          \* number of job objects allocated so far
    items,            \* heap of reachable DownloadQueueItem objects
    downloadQueue,    \* const downloadQueue: job objects, in order
    currentDownload,  \* let currentDownload
    isProcessing,     \* let isProcessing
    procs,            \* yt-dlp child processes whose events are pending
    resp,             \* the HTTP response the last step sent, or NoResp
    done,             \* the job object the last step settled, or NoItem
    enqueued,         \* history: job objects POST /queue/add created
    started,          \* history: job objects the drain loop set downloading
    cancelled,        \* history: job objects a DELETE /queue/:id removed
    polled,           \* the polling client: the last status body it holds
    apiKey,           \* whether process.env.GROQ_API_KEY is set
    files,            \* the file names in DOWNLOAD_DIR
    execs,            \* ffmpeg child processes whose callback is pending
    uploads,          \* https requests to the speech service, pending
    heard,            \* the words the speech service has recognised
    reported,         \* history: <<failure, status code>> of /transcribe
    elsewhere,        \* the paths of the files outside DOWNLOAD_DIR
    lastWritten,      \* history: the file the last completed download wrote
    editor            \* the browser's ClipEditor object

vars == <<server, now, created, items, downloadQueue, currentDownload,
          isProcessing, procs, resp, done, enqueued, started, cancelled,
          polled, apiKey, files, execs, uploads, heard, reported, elsewhere,
          lastWritten, editor>>

\* What the download queue's code never assigns.
offQueue == <<server, apiKey, files, execs, uploads, heard, reported,
              elsewhere, lastWritten, editor>>

\* The mutable server state as one record, so that the functions of the
\* source compose.  done is the step's output.
St == [items |-> items, downloadQueue |-> downloadQueue,
       currentDownload |-> currentDownload, isProcessing |-> isProcessing,
       procs |-> procs, done |-> NoItem]

Range(s) == {s[i] : i \in DOMAIN s}
RemoveAt(s, i) == SubSeq(s, 1, i - 1) \o SubSeq(s, i + 1, Len(s))

\* The job objects reachable from downloadQueue, currentDownload and the
\* closures of the pending child-process handlers; the rest is garbage.
Reachable(st) ==
    Range(st.downloadQueue)
        \cup ({st.currentDownload} \ {Null})
        \cup {st.procs[i].item : i \in 1..Len(st.procs)}

Become(st) ==
    /\ items' = [h \in Reachable(st) |-> st.items[h]]
    /\ downloadQueue' = st.downloadQueue
    /\ currentDownload' = st.currentDownload
    /\ isProcessing' = st.isProcessing
    /\ procs' = st.procs
    /\ done' = st.done
    /\ started' = started \cup
          {h \in Reachable(st) : /\ st.items[h].origin = "enqueue"
                                 /\ st.items[h].status = "downloading"}

\* new URL(url) / the url checks of POST /queue/add and POST /download.
RejectsUrl(srv, u) ==
    IF srv = "ts"
    THEN ~Truthy(u) \/ ~IsString(u) \/ ~ParsesAsURL(u)
    ELSE ~Truthy(u)

NewItem(status, origin) ==
    [id |-> now, url |-> "submitted", status |-> status, progress |-> 0,
     filename |-> NoFile, error |-> NoError, origin |-> origin]

\* The child processes are an unordered collection: procs lists them by the
\* job object they download.
Insert(ps, p) ==
    LET k == Cardinality({i \in 1..Len(ps) : ps[i].item <= p.item})
    IN  SubSeq(ps, 1, k) \o <<p>> \o SubSeq(ps, k + 1, Len(ps))

\* downloadVideo(item): spawn yt-dlp; the promise stays pending.
downloadVideo(st, item, owner) ==
    [st EXCEPT !.procs = Insert(@, [item |-> item, owner |-> owner,
                                    errored |-> FALSE])]

\* A processQueue that does not set the flag.
EnterLoopNoFlag(st) == st

\* processQueue: isProcessing = true.
EnterLoop(st) == [st EXCEPT !.isProcessing = TRUE]

\* processQueue: the loop test and the loop body up to the await, or the
\* two assignments after the loop.
LoopHead(st) ==
    IF Len(st.downloadQueue) > 0
    THEN LET item == st.downloadQueue[1] IN
         downloadVideo([st EXCEPT !.currentDownload = item,
                                  !.items[item].status = "downloading"],
                       item, "queue")
    ELSE [st EXCEPT !.currentDownload = Null, !.isProcessing = FALSE]

\* processQueue from its call to its first await.
processQueue(st) ==
    IF st.isProcessing \/ Len(st.downloadQueue) = 0
    THEN st
    ELSE LoopHead(EnterLoop(st))

\* An enqueue that never starts the loop.
StartNever(st) == st

\* POST /queue/add: if (!isProcessing) void processQueue().
StartIfIdle(st) == IF ~st.isProcessing THEN processQueue(st) ELSE st

\* A loop that leaves the queue as it is after a download.
NoShift(q) == q

\* Array.prototype.shift: removes the first element, if any.
Shift(q) == IF Len(q) = 0 THEN q ELSE Tail(q)

\* A loop that takes every settled promise for a success.
SettleAsComplete(st, item, outcome) ==
    [st EXCEPT !.items[item].status = "complete",
               !.items[item].progress = 100]

\* processQueue: the try arm after the await, and the catch arm.
Settle(st, item, outcome) ==
    IF outcome.ok
    THEN [st EXCEPT !.items[item].status = "complete",
                    !.items[item].progress = 100]
    ELSE [st EXCEPT !.items[item].status = "error",
                    !.items[item].error = outcome.msg]

\* A loop that settles the job and removes the head, and goes no further.
AfterAwaitStops(st, item, outcome) ==
    LET settled == Settle(st, item, outcome)
    IN  [settled EXCEPT !.downloadQueue = Shift(@),
                        !.done = [job |-> item,
                                  item |-> settled.items[item]]]

\* processQueue after the await: try/catch arms, shift, next iteration.
\* outcome = [ok, msg] is how the promise of downloadVideo(item) settled.
AfterAwait(st, item, outcome) ==
    LET settled == Settle(st, item, outcome)
    IN  LoopHead([settled EXCEPT !.downloadQueue = Shift(@),
                                 !.done = [job |-> item,
                                           item |-> settled.items[item]]])

\* A close handler that only settles the promise.
OnCloseSilent(st, item, code) == st

\* downloadVideo's 'close' handler.
OnClose(st, item, code) ==
    IF code = 0
    THEN [st EXCEPT !.items[item].filename = VideoName(st.items[item].id),
                    !.items[item].url = "local"]
    ELSE st

\* downloadVideo's stdout 'data' handler: String.prototype.match without
\* the g flag takes the first percentage of the chunk.
OnStdout(st, item, chunk) ==
    LET a == IF Len(chunk.pcts) > 0
             THEN [st EXCEPT !.items[item].progress = chunk.pcts[1]]
             ELSE st
    IN  IF chunk.marker
        THEN [a EXCEPT !.items[item].filename = VideoName(st.items[item].id)]
        ELSE a

\* POST /download: .then and .catch both clear currentDownload.
LegacySettled(st) == [st EXCEPT !.currentDownload = Null]

\* The continuation a settled downloadVideo promise resumes.
Continue(st, p, outcome) ==
    IF p.owner = "queue"
    THEN AfterAwait(st, p.item, outcome)
    ELSE LegacySettled(st)

\* A lookup whose miss is taken for an index: splice(-1, 1) removes the
\* last element.
FindIndexOrLast(q, its, id) ==
    IF \E i \in 1..Len(q) : its[q[i]].id = id
    THEN CHOOSE i \in 1..Len(q) :
            /\ its[q[i]].id = id
            /\ \A j \in 1..(i - 1) : its[q[j]].id # id
    ELSE Len(q)

\* downloadQueue.findIndex(d => d.id === id), 1-based; 0 for -1.
FindIndex(q, its, id) ==
    IF \E i \in 1..Len(q) : its[q[i]].id = id
    THEN CHOOSE i \in 1..Len(q) :
            /\ its[q[i]].id = id
            /\ \A j \in 1..(i - 1) : its[q[j]].id # id
    ELSE 0

\* A cancel that frees the drain loop when it removes the active job.
SpliceAndRelease(st, index) ==
    IF st.downloadQueue[index] = st.currentDownload
    THEN [st EXCEPT !.downloadQueue = RemoveAt(@, index),
                    !.currentDownload = Null,
                    !.isProcessing = FALSE]
    ELSE [st EXCEPT !.downloadQueue = RemoveAt(@, index)]

\* A cancel that also ends the child process of the job it removes.
SpliceAndKill(st, index) ==
    [st EXCEPT !.downloadQueue = RemoveAt(@, index),
               !.procs = SelectSeq(@, LAMBDA p :
                                         p.item # st.downloadQueue[index])]

\* DELETE /queue/:id: downloadQueue.splice(index, 1).
Splice(st, index) == [st EXCEPT !.downloadQueue = RemoveAt(@, index)]

\* GET /queue/status body (currentDownload: <<>> for null, else <<job>>).
Snapshot ==
    [currentDownload |-> IF currentDownload = Null THEN <<>>
                         ELSE <<items[currentDownload]>>,
     queue |-> [i \in 1..Len(downloadQueue) |-> items[downloadQueue[i]]],
     isProcessing |-> isProcessing]

\* A client that polls GET /queue/status keeps the body of its last poll
\* for as long as no enqueue, cancel, subprocess output or subprocess
\* completion has happened since; on tells whether such a client exists.
NoPoller == [on |-> FALSE, seen |-> <<>>]
Poller == [on |-> TRUE, seen |-> <<>>]

\* The client's copy of the status body is out of date.
Forget == polled' = [polled EXCEPT !.seen = <<>>]

\* The client stores the body of the poll.
Keep(body) ==
    polled' = IF polled.on THEN [polled EXCEPT !.seen = <<body>>] ELSE polled

IdleQueue(srv, client) ==
    /\ server = srv
    /\ now = 0
    /\ created = 0
    /\ items = <<>>
    /\ downloadQueue = <<>>
    /\ currentDownload = Null
    /\ isProcessing = FALSE
    /\ procs = <<>>
    /\ resp = NoResp
    /\ done = NoItem
    /\ enqueued = {}
    /\ started = {}
    /\ cancelled = {}
    /\ polled = client

\* The file of the application that lies next to DOWNLOAD_DIR: its
\* absolute path, one name per directory level.
AppDir == <<"a", "p", "p">>
Secret == <<AppDir, <<"s">>>>

\* The fields of a ClipEditor as its class declares them, in seconds.
\* dragTarget is "start", "end", "range" or "null".
NewEditor == [duration |-> 0, clipStart |-> 0, clipEnd |-> 30,
              clipDuration |-> 30, isDragging |-> FALSE,
              dragTarget |-> "null", dragStartClipStart |-> 0,
              dragStartClipEnd |-> 0]

\* No media request is in flight, the files outside DOWNLOAD_DIR are in
\* place, and the page has built its editor.
NoCalls ==
    /\ execs = <<>>
    /\ uploads = <<>>
    /\ heard = <<>>
    /\ reported = {}
    /\ elsewhere = {Secret}
    /\ lastWritten = NoFile
    /\ editor = NewEditor

InitWith(srv, client) ==
    /\ IdleQueue(srv, client)
    /\ apiKey = TRUE
    /\ files = {}
    /\ NoCalls

Init == InitWith("ts", NoPoller)

\* Nothing of the server changes.
Untouched ==
    UNCHANGED <<offQueue, now, created, items, downloadQueue, currentDownload,
                isProcessing, procs, enqueued, started, cancelled>>

\* Time passes.
Tick ==
    /\ now < MaxTime
    /\ now' = now + 1
    /\ resp' = NoResp
    /\ done' = NoItem
    /\ UNCHANGED <<offQueue, created, items, downloadQueue, currentDownload,
                   isProcessing, procs, enqueued, started, cancelled,
                   polled>>

\* POST /queue/add (limit bounds the job objects the model creates).
QueueAdd(u, limit) ==
    IF RejectsUrl(server, u)
    THEN /\ resp' = [op |-> "add", code |-> 400, body |-> <<>>]
         /\ done' = NoItem
         /\ Untouched
         /\ Forget
    ELSE /\ created < limit
         /\ created' = created + 1
         /\ LET item == created + 1
                pushed == [St EXCEPT
                             !.items = @ @@ (item :> NewItem("queued", "enqueue")),
                             !.downloadQueue = Append(@, item)]
                after == StartIfIdle(pushed)
            IN  /\ Become(after)
                /\ resp' = [op |-> "add", code |-> 200,
                            body |-> [id |-> now,
                                      queuePosition |->
                                          Len(after.downloadQueue)]]
         /\ enqueued' = enqueued \cup {created + 1}
         /\ Forget
         /\ UNCHANGED <<offQueue, now, cancelled>>

\* GET /queue/status
QueueStatus ==
    /\ resp' = [op |-> "status", code |-> 200, body |-> Snapshot]
    /\ done' = NoItem
    /\ Untouched
    /\ Keep(Snapshot)

\* DELETE /queue/:id
QueueCancel(id) ==
    LET index == FindIndex(downloadQueue, items, id) IN
    IF index # 0
    THEN /\ Become(Splice(St, index))
         /\ cancelled' = cancelled \cup {downloadQueue[index]}
         /\ resp' = [op |-> "cancel", code |-> 200, body |-> <<>>]
         /\ Forget
         /\ UNCHANGED <<offQueue, now, created, enqueued>>
    ELSE /\ resp' = [op |-> "cancel", code |-> 404, body |-> <<>>]
         /\ done' = NoItem
         /\ Untouched
         /\ Forget

\* POST /download (limit bounds the job objects the model creates).
LegacyDownload(u, limit) ==
    IF RejectsUrl(server, u)
    THEN /\ resp' = [op |-> "download", code |-> 400, body |-> <<>>]
         /\ done' = NoItem
         /\ Untouched
         /\ UNCHANGED polled
    ELSE /\ created < limit
         /\ created' = created + 1
         /\ LET item == created + 1
                made == [St EXCEPT
                           !.items = @ @@ (item :> NewItem("downloading", "legacy")),
                           !.currentDownload = item]
            IN  Become(downloadVideo(made, item, "legacy"))
         /\ resp' = NoResp
         /\ UNCHANGED <<offQueue, now, enqueued, cancelled, polled>>

\* The response POST /download sends when its promise settles; statSync
\* throws into .catch when the file is not there.
LegacyResponse(p, outcome, fileThere) ==
    IF p.owner # "legacy" THEN NoResp
    ELSE IF outcome.ok /\ fileThere
         THEN [op |-> "download", code |-> 200, body |-> <<>>]
         ELSE [op |-> "download", code |-> 500, body |-> <<>>]

\* yt-dlp writes to stdout.
ProcStdout(i, chunk) ==
    /\ i \in 1..Len(procs)
    /\ ~procs[i].errored
    /\ Become(OnStdout(St, procs[i].item, chunk))
    /\ resp' = NoResp
    /\ Forget
    /\ UNCHANGED <<offQueue, now, created, enqueued, cancelled>>

\* yt-dlp's 'close' event, as far as the queue goes.  After an 'error'
\* event the promise is already rejected and the handler's reject() does
\* nothing.
Closing(i, code, fileThere) ==
    /\ i \in 1..Len(procs)
    /\ LET p == procs[i]
           gone == [St EXCEPT !.procs = RemoveAt(@, i)]
           outcome == [ok |-> code = 0, msg |-> ExitMessage(code)]
       IN  IF p.errored
           THEN /\ code # 0
                /\ Become(gone)
                /\ resp' = NoResp
           ELSE /\ Become(Continue(OnClose(gone, p.item, code), p, outcome))
                /\ resp' = LegacyResponse(p, outcome, fileThere)
    /\ Forget

\* yt-dlp's 'close' event where DOWNLOAD_DIR is not looked at.
ProcClose(i, code, fileThere) ==
    /\ Closing(i, code, fileThere)
    /\ UNCHANGED <<offQueue, now, created, enqueued, cancelled>>

\* A process that has printed nothing the stdout handler acts on (Pcts
\* holds no 0, and a chunk with no percentage and no marker changes nothing).
Quiet(it) == it.progress = 0 /\ it.filename = NoFile

\* yt-dlp's 'error' event: the executable could not be started, so it has
\* printed nothing; Node delivers a 'close' with a nonzero code after it.
ProcError(i) ==
    /\ i \in 1..Len(procs)
    /\ ~procs[i].errored
    /\ Quiet(items[procs[i].item])
    /\ LET p == procs[i]
           marked == [St EXCEPT !.procs[i].errored = TRUE]
           outcome == [ok |-> FALSE, msg |-> SpawnMessage]
       IN  /\ Become(Continue(marked, p, outcome))
           /\ resp' = LegacyResponse(p, outcome, FALSE)
    /\ Forget
    /\ UNCHANGED <<offQueue, now, created, enqueued, cancelled>>

NextUpTo(limit) ==
    \/ Tick
    \/ \E u \in UrlInputs : QueueAdd(u, limit)
    \/ QueueStatus
    \/ \E id \in 0..MaxTime : QueueCancel(id)
    \/ \E u \in UrlInputs : LegacyDownload(u, limit)
    \/ \E i \in 1..limit, c \in Chunks : ProcStdout(i, c)
    \/ \E i \in 1..limit, code \in ExitCodes, f \in BOOLEAN :
          ProcClose(i, code, f)
    \/ \E i \in 1..limit : ProcError(i)

Next == NextUpTo(MaxJobs)

\* The TypeScript server.
Spec == Init /\ [][Next]_vars

\* The yt-dlp process of job object h ends.
Exits(h) ==
    \E i \in 1..MaxJobs, code \in ExitCodes, f \in BOOLEAN :
        /\ i \in 1..Len(procs)
        /\ procs[i].item = h
        /\ ProcClose(i, code, f)

\* The TypeScript server where every yt-dlp process that was started
\* ends: Node delivers the 'close' event of each child process.
SpecLive == Init /\ [][Next]_vars /\ \A h \in 1..MaxJobs : WF_vars(Exits(h))

\* The drain loop with a yt-dlp that prints two different percentages,
\* one or both of them in a chunk: 'data' events carry what the pipe
\* holds, which may be several lines.
TwoPcts == {20, 50}
TwoPctChunks ==
    [pcts : {<<>>} \cup {<<a>> : a \in TwoPcts}
                   \cup {p \in TwoPcts \X TwoPcts : p[1] # p[2]},
     marker : BOOLEAN]

NextProgress ==
    \/ \E u \in UrlInputs : QueueAdd(u, MaxJobs)
    \/ QueueCancel(0)
    \/ \E i \in 1..MaxJobs, c \in TwoPctChunks : ProcStdout(i, c)
    \/ \E i \in 1..MaxJobs, code \in ExitCodes : ProcClose(i, code, TRUE)

SpecProgress == Init /\ [][NextProgress]_vars

\* The TypeScript server, with a third job.
NextFifo == NextUpTo(MaxJobsFifo)
SpecFifo == Init /\ [][NextFifo]_vars

\* server.js.  Its queue differs from the TypeScript server's in the url
\* check alone, and the url of a job decides nothing after it.
InitJs == InitWith("js", NoPoller)
SpecJs == InitJs /\ [][Next]_vars

\* The TypeScript server with a client that polls the queue status.
InitPoll == InitWith("ts", Poller)
SpecPoll == InitPoll /\ [][Next]_vars

TypeOK ==
    /\ server \in Servers
    /\ now \in 0..MaxTime
    /\ created \in 0..MaxJobsFifo
    /\ DOMAIN items \subseteq 1..created
    /\ Range(downloadQueue) \subseteq DOMAIN items
    /\ currentDownload \in {Null} \cup DOMAIN items
    /\ isProcessing \in BOOLEAN
    /\ enqueued \subseteq 1..created
    /\ started \subseteq enqueued
    /\ cancelled \subseteq 1..created
    /\ polled.on \in BOOLEAN /\ Len(polled.seen) <= 1

(***************************************************************************)
(* POST /clip and POST /transcribe.  File names are JavaScript strings:    *)
(* sequences of characters, compared by code unit.                         *)
(***************************************************************************)

\* Bounds of the media model.
MaxSeconds == 1   \* startTime and endTime take the values -1..MaxSeconds
MaxCalls == 1     \* media requests in flight at a time

\* The characters of the file names, in the order of their code units.
Alphabet ==
    <<".", "0", "1", "2", "3", "4", "5", "6", "7", "8", "9", "_",
      "a", "b", "c", "d", "e", "f", "g", "h", "i", "j", "k", "l", "m",
      "n", "o", "p", "q", "r", "s", "t", "u", "v", "w", "x", "y", "z">>
CodeUnits ==
    [c \in Range(Alphabet) |-> CHOOSE k \in 1..Len(Alphabet) : Alphabet[k] = c]
CodeUnit(c) == CodeUnits[c]

\* String(n) of a non-negative integer, as in a template literal.
DecimalDigits == <<"0", "1", "2", "3", "4", "5", "6", "7", "8", "9">>
RECURSIVE Digits(_)
Digits(n) ==
    IF n < 10 THEN <<DecimalDigits[n + 1]>>
    ELSE Digits(n \div 10) \o <<DecimalDigits[(n % 10) + 1]>>

\* String.prototype.endsWith and startsWith.
endsWith(f, suffix) ==
    /\ Len(f) >= Len(suffix)
    /\ SubSeq(f, Len(f) - Len(suffix) + 1, Len(f)) = suffix
startsWith(f, prefix) ==
    /\ Len(f) >= Len(prefix)
    /\ SubSeq(f, 1, Len(prefix)) = prefix

\* The comparison of Array.prototype.sort without a comparator: x < y on
\* strings, decided at the first position where they differ.
Before(x, y) ==
    \E k \in 1..(Len(y)) :
        /\ \A j \in 1..(k - 1) : j <= Len(x) /\ x[j] = y[j]
        /\ \/ k > Len(x)
           \/ k <= Len(x) /\ CodeUnit(x[k]) < CodeUnit(y[k])

\* names.sort() of distinct names: ascending.
RECURSIVE sort(_)
sort(names) ==
    IF names = {} THEN <<>>
    ELSE LET least == CHOOSE x \in names :
                         \A y \in names \ {x} : Before(x, y)
         IN  <<least>> \o sort(names \ {least})

\* Array.prototype.reverse.
reverse(s) == [i \in 1..Len(s) |-> s[Len(s) + 1 - i]]

Mp4 == <<".", "m", "p", "4">>
Mp3 == <<".", "m", "p", "3">>
ClipPrefix == <<"c", "l", "i", "p", "_">>
VideoPrefix == <<"v", "i", "d", "e", "o", "_">>
TempAudioPrefix == <<"t", "e", "m", "p", "_", "a", "u", "d", "i", "o", "_">>

\* `clip_${timestamp}.mp4`, `temp_audio_${Date.now()}.mp3` and the
\* `video_${item.id}.mp4` yt-dlp writes.
ClipFile(timestamp) == ClipPrefix \o Digits(timestamp) \o Mp4
TempAudio(timestamp) == TempAudioPrefix \o Digits(timestamp) \o Mp3
VideoFile(id) == VideoPrefix \o Digits(id) \o Mp4

\* A filter that keeps every .mp4 file.
AllMp4(dir) == {f \in dir : endsWith(f, Mp4)}

\* files.filter(f => f.endsWith('.mp4') && !f.startsWith('clip_'))
videoFilter(dir) ==
    {f \in dir : endsWith(f, Mp4) /\ ~startsWith(f, ClipPrefix)}

\* ...filter(...).sort().reverse()
videoFiles(dir) == reverse(sort(videoFilter(dir)))

\* What DOWNLOAD_DIR may hold when the server starts: two downloads, a
\* clip made earlier, a partial download, and a file that has clip_ inside
\* its name.
Stored ==
    {VideoFile(9), VideoFile(10), ClipFile(0),
     VideoFile(9) \o <<".", "p", "a", "r", "t">>,
     <<"a">> \o ClipFile(1)}

\* What the media handlers never assign.
offMedia == <<server, apiKey, created, items, downloadQueue, currentDownload,
              isProcessing, procs, enqueued, started, cancelled, polled,
              elsewhere, lastWritten, editor>>

\* req.body.startTime and req.body.endTime: undefined, a string that is
\* no number, or a number.
Undefined == [type |-> "undefined", value |-> 0]
AString == [type |-> "string", value |-> 0]
Num(n) == [type |-> "number", value |-> n]
TimeInputs == {Undefined, AString} \cup {Num(n) : n \in -1..MaxSeconds}
typeof(x) == x.type

\* The same by type alone, which is all POST /transcribe reads of them.
TimeTypes == {Undefined, AString, Num(0)}

\* res.status(code).json({ error }) and the callers' res.json(body).
Fail(op, code, error) == [op |-> op, code |-> code, body |-> [error |-> error]]
Ok(op, body) == [op |-> op, code |-> 200, body |-> body]

\* POST /clip: the checks on req.body (NoError when they pass).  server.js
\* checks for undefined alone.
ClipCheck(srv, s, e) ==
    IF srv = "ts"
    THEN IF typeof(s) # "number" \/ typeof(e) # "number"
         THEN "startTime and endTime must be numbers"
         ELSE IF s.value < 0 \/ e.value <= s.value
              THEN "Invalid time range"
              ELSE NoError
    ELSE IF s = Undefined \/ e = Undefined
         THEN "startTime and endTime are required"
         ELSE NoError

\* The ffmpeg command of POST /clip and of POST /transcribe: its -i and
\* its output.  -ss startTime and -t duration go into ffmpeg and nowhere
\* else; server.js adds a second -i when an .m4a file matches the video's
\* name.
Command(for, input, output) ==
    [for |-> for, input |-> input, output |-> output]

\* POST /clip up to exec(command, ...).
ClipRequest(s, e) ==
    /\ LET refusal == ClipCheck(server, s, e)
           found == videoFiles(files)
       IN  IF refusal # NoError
           THEN /\ resp' = Fail("clip", 400, refusal)
                /\ UNCHANGED execs
           ELSE IF Len(found) = 0
                THEN /\ resp' = Fail("clip", 404, "No video file found")
                     /\ UNCHANGED execs
                ELSE /\ Len(execs) + Len(uploads) < MaxCalls
                     /\ execs' = Append(execs, Command("clip", found[1],
                                                       ClipFile(now)))
                     /\ resp' = NoResp
    /\ done' = NoItem
    /\ UNCHANGED <<offMedia, now, files, uploads, heard, reported>>

\* A clip callback that, when ffmpeg fails, marks the drain loop stopped.
ClipDoneStopsDrain(i, code, written) ==
    /\ i \in 1..Len(execs)
    /\ execs[i].for = "clip"
    /\ files' = IF written THEN files \cup {execs[i].output} ELSE files
    /\ execs' = RemoveAt(execs, i)
    /\ resp' = IF code # 0 THEN Fail("clip", 500, "Clip creation failed")
               ELSE Ok("clip", [success |-> TRUE,
                                filename |-> execs[i].output])
    /\ isProcessing' = (isProcessing /\ code = 0)
    /\ done' = NoItem
    /\ UNCHANGED <<server, apiKey, created, items, downloadQueue,
                   currentDownload, procs, enqueued, started, cancelled,
                   polled, now, uploads, heard, reported, elsewhere,
                   lastWritten, editor>>

\* The callback of POST /clip's exec: ffmpeg has ended with the exit code
\* and has written its output file or not.
ClipDone(i, code, written) ==
    /\ i \in 1..Len(execs)
    /\ execs[i].for = "clip"
    /\ LET p == execs[i]
           disk == IF written THEN files \cup {p.output} ELSE files
       IN  /\ files' = disk
           /\ execs' = RemoveAt(execs, i)
           /\ resp' = IF code # 0
                      THEN Fail("clip", 500, "Clip creation failed")
                      ELSE IF p.output \in disk
                           THEN Ok("clip", [success |-> TRUE,
                                            filename |-> p.output])
                           ELSE Fail("clip", 500, "Clip file not created")
    /\ done' = NoItem
    /\ UNCHANGED <<offMedia, now, uploads, heard, reported>>

\* Bound of the caption model.
MaxWords == 16    \* words in the response of the speech service

\* "Split into chunks of ~8 words".
ChunkSize == 8

\* let currentCaption = { text: '', words: [], startTime: 0, endTime: 0 }
EmptyCaption == [text |-> <<>>, words |-> <<>>, startTime |-> 0, endTime |-> 0]

\* A loop that closes a caption only at the last word.
NoSplit(caption, i, n) == i = n - 1

\* currentCaption.words.length >= 8 || i === response.words.length - 1
CaptionEnds(caption, i, n) == Len(caption.words) >= ChunkSize \/ i = n - 1

\* One call of the forEach callback, for word i (from 0) of n; acc holds
\* captions and currentCaption.
Callback(acc, word, i, n) ==
    LET pushed == [acc.current EXCEPT
                      !.words = Append(@, [text |-> word.word,
                                           startTime |-> word.start,
                                           endTime |-> word.end]),
                      !.text = @ \o (IF @ # <<>> THEN <<" ">> ELSE <<>>)
                                 \o word.word]
        begun == IF i = 0 THEN [pushed EXCEPT !.startTime = word.start]
                 ELSE pushed
        caption == [begun EXCEPT !.endTime = word.end]
    IN  IF CaptionEnds(caption, i, n)
        THEN [captions |-> Append(acc.captions, caption),
              current |-> EmptyCaption]
        ELSE [captions |-> acc.captions, current |-> caption]

\* response.words.forEach((word, i) => ...), from word i on.
RECURSIVE forEach(_, _, _)
forEach(acc, words, i) ==
    IF i >= Len(words) THEN acc
    ELSE forEach(Callback(acc, words[i + 1], i, Len(words)), words, i + 1)

\* The captions of a word array.
FormatCaptions(words) ==
    forEach([captions |-> <<>>, current |-> EmptyCaption], words, 0).captions

\* The words the speech service reports: a text, the pause before the word
\* and how long it lasts.
WordKinds ==
    {[word |-> <<"h", "i">>, gap |-> 0, dur |-> 1],
     [word |-> <<"y", "o">>, gap |-> 1, dur |-> 2]}

\* The entry of response.words for the next word of the audio.
Timed(k, before) ==
    LET start == (IF before = <<>> THEN 0 ELSE before[Len(before)].end)
                    + k.gap
    IN  [word |-> k.word, start |-> start, end |-> start + k.dur]

\* The speech service recognises one more word.
Hear(k) ==
    /\ Len(heard) < MaxWords
    /\ heard' = Append(heard, Timed(k, heard))
    /\ resp' = NoResp
    /\ done' = NoItem
    /\ UNCHANGED <<offMedia, now, files, execs, uploads, reported>>

\* The caption formatting of POST /transcribe applied to the words heard.
Format ==
    /\ resp' = Ok("captions", [captions |-> FormatCaptions(heard)])
    /\ done' = NoItem
    /\ UNCHANGED <<offMedia, now, files, execs, uploads, heard, reported>>

\* What ends the https request to the speech service: an 'error' event of
\* the request, or a response whose body is data.  The status code of the
\* response is not read.  A body is text that JSON.parse rejects, the JSON
\* null, or a JSON object; of an object, words is undefined, a non-empty
\* string or an array (its text is handed on as it came).
Transcript == <<[word |-> <<"h", "i">>, start |-> 0, end |-> 1]>>
WordsValues ==
    {[type |-> "undefined", list |-> <<>>],
     [type |-> "string", list |-> <<>>],
     [type |-> "array", list |-> <<>>],
     [type |-> "array", list |-> Transcript]}
Replies ==
    {[kind |-> "error"], [kind |-> "text"], [kind |-> "null"]}
        \cup [kind : {"object"}, words : WordsValues]

\* POST /transcribe: what is checked before the try block (NoResp when the
\* checks pass).  server.js checks nothing.
TranscribeCheck(srv, key, s, e) ==
    IF srv = "ts"
    THEN IF ~key
         THEN Fail("transcribe", 500, "Groq API key not configured")
         ELSE IF typeof(s) # "number" \/ typeof(e) # "number"
              THEN Fail("transcribe", 400,
                        "startTime and endTime must be numbers")
              ELSE NoResp
    ELSE NoResp

\* catch (error): res.status(500).json({ error: error.message })
Caught(message) == Fail("transcribe", 500, message)

\* POST /transcribe up to the await of the audio extraction.
TranscribeRequest(s, e) ==
    /\ LET refusal == TranscribeCheck(server, apiKey, s, e)
           found == videoFiles(files)
       IN  IF refusal # NoResp
           THEN /\ resp' = refusal
                /\ UNCHANGED <<execs, reported>>
           ELSE IF Len(found) = 0
                THEN /\ resp' = Fail("transcribe", 404, "No video file found")
                     /\ reported' = reported \cup {<<"no source", 404>>}
                     /\ UNCHANGED execs
                ELSE /\ Len(execs) + Len(uploads) < MaxCalls
                     /\ execs' = Append(execs,
                                        Command("transcribe", found[1],
                                                TempAudio(now)))
                     /\ resp' = NoResp
                     /\ UNCHANGED reported
    /\ done' = NoItem
    /\ UNCHANGED <<offMedia, now, files, uploads, heard>>

\* The callback of the extraction's exec and the code up to the await of
\* the https request.  An ffmpeg that exits with 0 has written its output
\* (with a missing file, the read stream's 'error' event has no listener).
ExtractDone(i, code, written) ==
    /\ i \in 1..Len(execs)
    /\ execs[i].for = "transcribe"
    /\ code = 0 => written
    /\ LET p == execs[i] IN
       /\ files' = IF written THEN files \cup {p.output} ELSE files
       /\ execs' = RemoveAt(execs, i)
       /\ IF code # 0
          THEN /\ resp' = Caught("Command failed")
               /\ reported' = reported \cup {<<"extraction", 500>>}
               /\ UNCHANGED uploads
          ELSE /\ uploads' = Append(uploads, [audio |-> p.output])
               /\ resp' = NoResp
               /\ UNCHANGED reported
    /\ done' = NoItem
    /\ UNCHANGED <<offMedia, now, heard>>

\* An unlink that never finds the file.
Missing(dir, f) == FALSE

\* fs.unlinkSync(audioPath): throws when the file is not there.
Unlinks(dir, f) == f \in dir

\* The code after unlinkSync: caption formatting and res.json, or the
\* TypeError of `response.words` on null and of `.forEach` on a string.
Formatted(reply) ==
    IF reply.kind = "null"
    THEN Caught("Cannot read properties of null")
    ELSE IF reply.words.type = "undefined"
         THEN Ok("transcribe", [success |-> TRUE, captions |-> <<>>])
         ELSE IF reply.words.type # "array"
              THEN Caught("response.words.forEach is not a function")
              ELSE Ok("transcribe",
                      [success |-> TRUE,
                       captions |-> FormatCaptions(reply.words.list)])

\* The https request ends: the rest of POST /transcribe.
UploadDone(i, reply) ==
    /\ i \in 1..Len(uploads)
    /\ LET audio == uploads[i].audio IN
       /\ uploads' = RemoveAt(uploads, i)
       /\ IF reply.kind = "error"
          THEN /\ resp' = Caught("request error")
               /\ UNCHANGED files
          ELSE IF reply.kind = "text"
               THEN /\ resp' = Caught("the response body")
                    /\ UNCHANGED files
               ELSE IF ~Unlinks(files, audio)
                    THEN /\ resp' = Caught("ENOENT")
                         /\ UNCHANGED files
                    ELSE /\ files' = files \ {audio}
                         /\ resp' = Formatted(reply)
    /\ reported' = IF resp'.code = 200 THEN reported
                   ELSE reported \cup {<<"service", resp'.code>>}
    /\ done' = NoItem
    /\ UNCHANGED <<offMedia, now, execs, heard>>

\* The storage directory and the credential, as the server finds them.
InitMedia(srv, keys) ==
    /\ IdleQueue(srv, NoPoller)
    /\ apiKey \in keys
    /\ files \in SUBSET Stored
    /\ NoCalls

NextClip ==
    \/ Tick
    \/ \E s \in TimeInputs, e \in TimeInputs : ClipRequest(s, e)
    \/ \E i \in 1..MaxCalls, code \in ExitCodes, w \in BOOLEAN :
          ClipDone(i, code, w)

\* POST /clip of the TypeScript server and of server.js.
SpecClip == InitMedia("ts", {TRUE}) /\ [][NextClip]_vars
SpecClipJs == InitMedia("js", {TRUE}) /\ [][NextClip]_vars

NextTranscribe ==
    \/ Tick
    \/ \E s \in TimeTypes, e \in TimeTypes : TranscribeRequest(s, e)
    \/ \E i \in 1..MaxCalls, code \in ExitCodes, w \in BOOLEAN :
          ExtractDone(i, code, w)
    \/ \E i \in 1..MaxCalls, reply \in Replies : UploadDone(i, reply)

\* POST /transcribe of the TypeScript server.
SpecTranscribe == InitMedia("ts", BOOLEAN) /\ [][NextTranscribe]_vars

\* POST /transcribe of server.js, with GROQ_API_KEY set or not.
SpecTranscribeJs == InitMedia("js", BOOLEAN) /\ [][NextTranscribe]_vars

NextCaptions ==
    \/ \E k \in WordKinds : Hear(k)
    \/ Format

\* The caption formatting, for every word list up to MaxWords.
SpecCaptions == Init /\ [][NextCaptions]_vars

\* The queue and the media requests on one server: POST /clip and
\* POST /transcribe arrive while the drain loop runs.  All of it happens
\* within one millisecond, yt-dlp prints one kind of chunk, and
\* DOWNLOAD_DIR holds one download when the server starts.
MaxJobsMixed == 1   \* job objects created while media requests run

InitMixed ==
    /\ IdleQueue("ts", NoPoller)
    /\ apiKey = TRUE
    /\ files = {VideoFile(9)}
    /\ NoCalls

NextMixed ==
    \/ \E u \in UrlInputs : QueueAdd(u, MaxJobsMixed)
    \/ QueueCancel(0)
    \/ \E i \in 1..MaxJobsMixed :
          ProcStdout(i, [pcts |-> <<50>>, marker |-> TRUE])
    \/ \E i \in 1..MaxJobsMixed, code \in ExitCodes : ProcClose(i, code, TRUE)
    \/ \E i \in 1..MaxJobsMixed : ProcError(i)
    \/ \E s \in TimeInputs, e \in TimeInputs : ClipRequest(s, e)
    \/ \E i \in 1..MaxCalls, code \in ExitCodes, w \in BOOLEAN :
          ClipDone(i, code, w)
    \/ \E s \in TimeTypes, e \in TimeTypes : TranscribeRequest(s, e)
    \/ \E i \in 1..MaxCalls, code \in ExitCodes, w \in BOOLEAN :
          ExtractDone(i, code, w)
    \/ \E i \in 1..MaxCalls, reply \in Replies : UploadDone(i, reply)

SpecMixed == InitMixed /\ [][NextMixed]_vars

\* yt-dlp's 'close' event with DOWNLOAD_DIR: a process that ends with code
\* 0 has written the file of its -o argument, video_<id>.mp4.
ProcCloseToDisk(i, code) ==
    /\ i \in 1..Len(procs)
    /\ LET wrote == code = 0 /\ ~procs[i].errored
           outputFile == VideoFile(items[procs[i].item].id)
       IN  /\ Closing(i, code, wrote \/ outputFile \in files)
           /\ files' = IF wrote THEN files \cup {outputFile} ELSE files
           /\ lastWritten' = IF wrote THEN outputFile ELSE lastWritten
    /\ UNCHANGED <<server, apiKey, execs, uploads, heard, reported,
                   elsewhere, now, created, enqueued, cancelled, editor>>

\* Downloads that fill DOWNLOAD_DIR, and clip and transcribe requests
\* that pick their source from it.
NextLibrary ==
    \/ Tick
    \/ \E u \in UrlInputs : QueueAdd(u, MaxJobs)
    \/ \E id \in 0..MaxTime : QueueCancel(id)
    \/ \E u \in UrlInputs : LegacyDownload(u, MaxJobs)
    \/ \E i \in 1..MaxJobs, code \in ExitCodes : ProcCloseToDisk(i, code)
    \/ \E s \in TimeInputs, e \in TimeInputs : ClipRequest(s, e)
    \/ \E i \in 1..MaxCalls, code \in ExitCodes, w \in BOOLEAN :
          ClipDone(i, code, w)
    \/ \E s \in TimeTypes, e \in TimeTypes : TranscribeRequest(s, e)
    \/ \E i \in 1..MaxCalls, code \in ExitCodes, w \in BOOLEAN :
          ExtractDone(i, code, w)
    \/ \E i \in 1..MaxCalls, reply \in Replies : UploadDone(i, reply)

SpecLibrary == Init /\ [][NextLibrary]_vars

(***************************************************************************)
(* DELETE /file/:filename and GET /files.  Express decodes the route       *)
(* parameter, so that %2F arrives as '/'.  Paths are those of a POSIX      *)
(* system: '/' separates the names, '\' is a character of a name.          *)
(***************************************************************************)

\* String.prototype.includes.
includes(f, part) ==
    \E k \in 1..(Len(f) - Len(part) + 1) :
        SubSeq(f, k, k + Len(part) - 1) = part

\* f.split('/')
RECURSIVE split(_)
split(f) ==
    IF ~includes(f, <<"/">>) THEN <<f>>
    ELSE LET k == CHOOSE j \in 1..Len(f) :
                     /\ f[j] = "/"
                     /\ \A h \in 1..(j - 1) : f[h] # "/"
         IN  <<SubSeq(f, 1, k - 1)>> \o split(SubSeq(f, k + 1, Len(f)))

\* path.normalize of an absolute path, name by name: '' and '.' vanish,
\* '..' removes the name before it (the root has no parent).
RECURSIVE normalize(_, _)
normalize(seen, rest) ==
    IF rest = <<>> THEN seen
    ELSE LET name == Head(rest) IN
         IF name = <<>> \/ name = <<".">>
         THEN normalize(seen, Tail(rest))
         ELSE IF name = <<".", ".">>
              THEN normalize(IF seen = <<>> THEN seen
                             ELSE SubSeq(seen, 1, Len(seen) - 1), Tail(rest))
              ELSE normalize(Append(seen, name), Tail(rest))

\* const DOWNLOAD_DIR = path.join(__dirname, ... 'downloads')
DOWNLOAD_DIR == <<AppDir, <<"d", "o", "w", "n", "l", "o", "a", "d", "s">>>>

\* path.join(DOWNLOAD_DIR, filename)
join(dir, filename) == normalize(<<>>, dir \o split(filename))

\* Whether the path is a directory: DOWNLOAD_DIR, or a directory above it
\* or above another file.
IsDirectory(path) ==
    \E whole \in {DOWNLOAD_DIR} \cup elsewhere :
        /\ Len(path) <= Len(whole)
        /\ SubSeq(whole, 1, Len(path)) = path
        /\ whole \notin elsewhere \/ path # whole

\* The path names a file in DOWNLOAD_DIR.
InDownloads(path) ==
    /\ Len(path) = Len(DOWNLOAD_DIR) + 1
    /\ SubSeq(path, 1, Len(DOWNLOAD_DIR)) = DOWNLOAD_DIR

\* fs.existsSync(filePath)
existsSync(path) ==
    \/ IsDirectory(path)
    \/ path \in elsewhere
    \/ InDownloads(path) /\ path[Len(path)] \in files

\* The filename check of the TypeScript server; server.js has none.
InvalidFilename(srv, filename) ==
    /\ srv = "ts"
    /\ \/ includes(filename, <<".", ".">>)
       \/ includes(filename, <<"/">>)
       \/ includes(filename, <<"\\">>)

\* DELETE /file/:filename.  unlinkSync of a directory throws, and Express
\* answers 500.
DeleteFile(filename) ==
    /\ LET filePath == join(DOWNLOAD_DIR, filename) IN
       IF InvalidFilename(server, filename)
       THEN /\ resp' = Fail("delete", 400, "Invalid filename")
            /\ UNCHANGED <<files, elsewhere>>
       ELSE IF ~existsSync(filePath)
            THEN /\ resp' = Fail("delete", 404, "File not found")
                 /\ UNCHANGED <<files, elsewhere>>
            ELSE IF IsDirectory(filePath)
                 THEN /\ resp' = Fail("delete", 500, "EISDIR")
                      /\ UNCHANGED <<files, elsewhere>>
                 ELSE /\ resp' = Ok("delete", [success |-> TRUE])
                      /\ files' = IF InDownloads(filePath)
                                  THEN files \ {filePath[Len(filePath)]}
                                  ELSE files
                      /\ elsewhere' = elsewhere \ {filePath}
    /\ done' = NoItem
    /\ UNCHANGED <<server, apiKey, now, created, items, downloadQueue,
                   currentDownload, isProcessing, procs, enqueued, started,
                   cancelled, polled, execs, uploads, heard, reported,
                   lastWritten, editor>>

\* GET /files: fs.readdirSync(DOWNLOAD_DIR), in the order of the names.
ListFiles ==
    /\ resp' = Ok("files", [files |-> sort(files)])
    /\ done' = NoItem
    /\ UNCHANGED <<offMedia, now, files, execs, uploads, heard, reported>>

\* The names a client asks to delete: a download, a name with two dots
\* inside, and names that lead out of DOWNLOAD_DIR or try to.
DottedName == <<"a", ".", ".", "b">>
FileNames ==
    {VideoFile(9), ClipFile(0), DottedName,
     <<".", ".", "/", "s">>,
     <<".", ".", "\\", "s">>,
     <<".", ".">>,
     <<"/", "s">>,
     <<"x", "/", ".", ".", "/", ".", ".", "/", "s">>}

InitFiles(srv) ==
    /\ IdleQueue(srv, NoPoller)
    /\ apiKey = TRUE
    /\ files \in SUBSET (Stored \cup {DottedName})
    /\ NoCalls

NextFiles ==
    \/ \E f \in FileNames : DeleteFile(f)
    \/ ListFiles

\* The file endpoints of the TypeScript server and of server.js.
SpecFiles == InitFiles("ts") /\ [][NextFiles]_vars
SpecFilesJs == InitFiles("js") /\ [][NextFiles]_vars

-----------------------------------------------------------------------------
(* Queue manager: properties. *)

\* The jobs POST /queue/add created that have status 'downloading'.
DownloadingJobs ==
    {h \in DOMAIN items : /\ items[h].origin = "enqueue"
                          /\ items[h].status = "downloading"}

\* C1: in every reachable state at most one job created by enqueue has
\* status Downloading.
C1_AtMostOneDownloading == Cardinality(DownloadingJobs) <= 1

\* C1's case: one job is downloading while another waits in the queue
\* behind it.
C1_Witness ==
    /\ Cardinality(DownloadingJobs) = 1
    /\ Len(downloadQueue) >= 2

\* C2: the queue drains in FIFO order: whenever a job B has become
\* Downloading, every job enqueued before B has become Downloading or has
\* been cancelled.
C2_Fifo ==
    \A b \in started : \A a \in enqueued :
        a < b => a \in started \cup cancelled

\* The activations of processQueue suspended at `await downloadVideo(item)`:
\* between two steps an activation inside the while loop is nowhere else.
Activations ==
    {i \in 1..Len(procs) : procs[i].owner = "queue" /\ ~procs[i].errored}

\* C3: at most one activation of processQueue is inside its while loop.
C3_SingleDrainLoop == Cardinality(Activations) <= 1

\* C3's case: enqueue was just called while the loop is suspended awaiting
\* a download, and the job was added behind the one being downloaded.
C3_Witness ==
    /\ Cardinality(Activations) = 1
    /\ resp.op = "add" /\ resp.code = 200
    /\ resp.body.queuePosition >= 2

\* C4: a job leaves the queue only when that same job has reached Complete
\* or Failed, or when that same job is the one a cancel call removes.
C4_RemovedOnlyWhenTerminalOrCancelled ==
    [][\A h \in Range(downloadQueue) \ Range(downloadQueue') :
          \/ /\ done' # NoItem
             /\ done'.job = h
             /\ done'.item.status \in {"complete", "error"}
          \/ h \in cancelled' \ cancelled]_vars

\* C5: currentDownload is empty or refers to the job at the head of the
\* queue.
C5_CurrentIsHeadOrNull ==
    \/ currentDownload = Null
    \/ Len(downloadQueue) > 0 /\ currentDownload = downloadQueue[1]

\* The queued download of procs[i] is still awaited by the drain loop.
Awaited(i) == procs[i].owner = "queue" /\ ~procs[i].errored

\* The job the drain order puts after job h: the first queue entry that is
\* not h (Null when there is none).
NextInQueue(q, h) ==
    LET rest == SelectSeq(q, LAMBDA x : x # h)
    IN  IF Len(rest) > 0 THEN rest[1] ELSE Null

\* What C6 asks of the step in which the download of job h fails with msg.
FailureHandled(h, msg, next) ==
    /\ done' # NoItem
    /\ done'.job = h
    /\ done'.item.status = "error"
    /\ done'.item.error = msg
    /\ next # Null =>
          /\ next \in DOMAIN items'
          /\ items'[next].status = "downloading"
          /\ isProcessing'

\* C6: when a queued download fails (nonzero exit, or the executable does
\* not start), the job is marked Failed with the error recorded, and the
\* next job in the queue, if any, becomes Downloading.
C6_FailureRecordedAndNextStarts ==
    [][\A i \in 1..Len(procs) :
          Awaited(i) =>
             LET h == procs[i].item
                 next == NextInQueue(downloadQueue, h)
             IN  /\ ProcError(i) => FailureHandled(h, SpawnMessage, next)
                 /\ \A code \in ExitCodes \ {0}, f \in BOOLEAN :
                       ProcClose(i, code, f) =>
                          FailureHandled(h, ExitMessage(code), next)]_vars

\* While the subprocess of a cancelled job runs, no other job created by
\* enqueue is Downloading.
NoOtherDownloading ==
    \A i \in 1..Len(procs) :
        (Awaited(i) /\ procs[i].item \in cancelled) =>
            DownloadingJobs \subseteq {procs[i].item}

\* C7: cancelling the job that is Downloading leaves its subprocess alone,
\* and no other job becomes Downloading until that subprocess has exited.
C7_CancelActiveKeepsSubprocess ==
    [][/\ \A h \in cancelled' \ cancelled :
              items[h].status = "downloading" => procs' = procs
       /\ NoOtherDownloading']_vars

\* C7's case: the job being downloaded was cancelled, its subprocess still
\* runs, and another job waits in the queue.
C7_Witness ==
    \E i \in 1..Len(procs) :
        /\ Awaited(i)
        /\ procs[i].item \in cancelled
        /\ items[procs[i].item].status = "downloading"
        /\ Len(downloadQueue) >= 1

\* The queue entries that hold a Queued job with the given id.
QueuedWithId(id) ==
    {j \in 1..Len(downloadQueue) :
        /\ items[downloadQueue[j]].id = id
        /\ items[downloadQueue[j]].status = "queued"}

\* C8: cancel(jobId) of a Queued job removes exactly that job and returns
\* ok; every other job, the order of the queue, currentDownload,
\* isProcessing and the subprocesses stay as they were.
C8_CancelQueuedRemovesOnlyThat ==
    [][\A id \in 0..MaxTime :
          (QueuedWithId(id) # {} /\ QueueCancel(id)) =>
             /\ resp'.code = 200
             /\ \E j \in QueuedWithId(id) :
                   /\ downloadQueue' = RemoveAt(downloadQueue, j)
                   /\ \A h \in DOMAIN items \ {downloadQueue[j]} :
                         h \in DOMAIN items' /\ items'[h] = items[h]
             /\ UNCHANGED <<currentDownload, isProcessing, procs>>]_vars

\* A url the validation is to reject: missing, not a string, or malformed.
BadUrl(u) == ~Truthy(u) \/ ~IsString(u) \/ ~ParsesAsURL(u)

\* C9: enqueue with a missing, non-string or malformed url is rejected with
\* a validation error and changes nothing.
C9_BadUrlRejected ==
    [][\A u \in UrlInputs :
          (BadUrl(u) /\ QueueAdd(u, MaxJobs)) =>
             /\ resp'.code = 400
             /\ UNCHANGED <<items, downloadQueue, currentDownload,
                            isProcessing, procs>>]_vars

\* C10: cancel with an id that matches no job in the queue returns
\* not-found and changes nothing (every step of QueueCancel answers with
\* op "cancel", so only the steps that do are looked at).
C10_CancelUnknownNotFound ==
    [][resp'.op = "cancel" =>
          \A id \in 0..MaxTime :
             (/\ \A j \in 1..Len(downloadQueue) :
                    items[downloadQueue[j]].id # id
              /\ QueueCancel(id)) =>
                /\ resp'.code = 404
                /\ UNCHANGED <<items, downloadQueue, currentDownload,
                               isProcessing, procs>>]_vars

\* C10's case: a cancel has just answered not-found while jobs are queued.
C10_Witness ==
    /\ resp.op = "cancel" /\ resp.code = 404
    /\ Len(downloadQueue) >= 2

\* The state GET /queue/status reports on.
QueueState == <<items, downloadQueue, currentDownload, isProcessing, procs>>

\* C11: snapshot() changes no state, and two snapshot() calls with no
\* enqueue, cancel, progress report or subprocess completion between them
\* return the same activeJob, pendingJobs and isDraining.
C11_SnapshotIdempotent ==
    [][QueueStatus =>
          /\ UNCHANGED QueueState
          /\ polled.seen # <<>> => resp'.body = polled.seen[1]]_vars

\* The first half of C11 alone: snapshot() changes no state, and a second
\* snapshot() right after the first returns the same body.
C11_SnapshotReadOnly ==
    [][QueueStatus =>
          /\ UNCHANGED QueueState
          /\ resp.op = "status" => resp'.body = resp.body]_vars

-----------------------------------------------------------------------------
(* Clip extraction and transcription: properties. *)

\* The time ranges extractClip is to refuse: numbers with startTime < 0 or
\* endTime <= startTime.
BadRange(s, e) ==
    /\ s.type = "number" /\ e.type = "number"
    /\ s.value < 0 \/ e.value <= s.value

\* C12: extractClip with startTime < 0 or endTime <= startTime fails with
\* a validation error, spawns no subprocess and writes no output file.
C12_BadRangeRejected ==
    [][\A s \in TimeInputs, e \in TimeInputs :
          (BadRange(s, e) /\ ClipRequest(s, e)) =>
             /\ resp'.op = "clip" /\ resp'.code = 400
             /\ UNCHANGED <<execs, files>>]_vars

\* Lexicographic order of two names, character by character.
RECURSIVE LexLeq(_, _)
LexLeq(a, b) ==
    IF a = <<>> THEN TRUE
    ELSE IF b = <<>> THEN FALSE
    ELSE IF a[1] # b[1] THEN CodeUnit(a[1]) < CodeUnit(b[1])
    ELSE LexLeq(Tail(a), Tail(b))

\* The names of the directory that are <stem>.mp4 and not clip_<rest>.
SourceCandidates(dir) ==
    {f \in dir :
        /\ \E k \in 0..Len(f) : f = SubSeq(f, 1, k) \o Mp4
        /\ ~ \E k \in 0..Len(f) : f = ClipPrefix \o SubSeq(f, k + 1, Len(f))}

\* The step spawns one ffmpeg, reading the greatest source candidate.
SpawnsOnGreatest ==
    /\ Len(execs') = Len(execs) + 1
    /\ LET input == execs'[Len(execs')].input IN
       /\ input \in SourceCandidates(files)
       /\ \A f \in SourceCandidates(files) : LexLeq(f, input)

\* C13: whatever the storage directory holds, extractClip takes as source
\* the lexicographically greatest name among the .mp4 files whose name
\* does not start with clip_, never a previous clip output, and fails with
\* not-found when there is no such file.
C13_SourceIsGreatestVideo ==
    [][\A s \in TimeInputs, e \in TimeInputs :
          (ClipCheck(server, s, e) = NoError /\ ClipRequest(s, e)) =>
             IF SourceCandidates(files) = {}
             THEN resp'.op = "clip" /\ resp'.code = 404 /\ execs' = execs
             ELSE SpawnsOnGreatest]_vars

\* C13's case: ffmpeg runs on video_9.mp4 while the directory also holds
\* video_10.mp4, a clip made earlier and a partial download.
C13_Witness ==
    /\ {VideoFile(9), VideoFile(10), ClipFile(0)} \subseteq files
    /\ \E i \in 1..Len(execs) :
          execs[i].for = "clip" /\ execs[i].input = VideoFile(9)

\* The same selection in POST /transcribe.
TranscribeSourceIsGreatestVideo ==
    [][\A s \in TimeTypes, e \in TimeTypes :
          (TranscribeCheck(server, apiKey, s, e) = NoResp
             /\ TranscribeRequest(s, e)) =>
             IF SourceCandidates(files) = {}
             THEN resp'.op = "transcribe" /\ resp'.code = 404
                  /\ execs' = execs
             ELSE SpawnsOnGreatest]_vars

\* The texts of a caption's words with one space between neighbours.
RECURSIVE JoinedBySpaces(_)
JoinedBySpaces(ws) ==
    IF Len(ws) = 0 THEN <<>>
    ELSE IF Len(ws) = 1 THEN ws[1].text
    ELSE ws[1].text \o <<" ">> \o JoinedBySpaces(Tail(ws))

\* The captions the formatting has just returned.
Returned == resp.body.captions

\* C14: every caption produced by the chunking starts at the start of its
\* first word, ends at the end of its last word, and its text is its words
\* joined by single spaces (so, of 9 words, the second caption spans
\* word[8].startTime to word[8].endTime).
C14_CaptionSpansItsWords ==
    resp.op = "captions" =>
        \A k \in 1..Len(Returned) :
            LET c == Returned[k] IN
            /\ c.startTime = c.words[1].startTime
            /\ c.endTime = c.words[Len(c.words)].endTime
            /\ c.text = JoinedBySpaces(c.words)

\* The word lists of the captions, one after the other.
RECURSIVE AllWords(_)
AllWords(cs) ==
    IF Len(cs) = 0 THEN <<>> ELSE cs[1].words \o AllWords(Tail(cs))

\* The input word list as caption words.
AsCaptionWords(ws) ==
    [i \in 1..Len(ws) |-> [text |-> ws[i].word, startTime |-> ws[i].start,
                           endTime |-> ws[i].end]]

\* C15: n words give ceil(n/8) captions; every caption but the last holds
\* 8 words and the last holds 1 to 8; the captions' word lists, one after
\* the other, are the input word list.
C15_ChunksOfEight ==
    resp.op = "captions" =>
        LET n == Len(heard)
            m == Len(Returned)
        IN  /\ m = (n + ChunkSize - 1) \div ChunkSize
            /\ \A k \in 1..(m - 1) : Len(Returned[k].words) = ChunkSize
            /\ m > 0 => Len(Returned[m].words) \in 1..ChunkSize
            /\ AllWords(Returned) = AsCaptionWords(heard)

\* C15's case: nine words have been formatted into two captions.
C15_Witness ==
    /\ resp.op = "captions"
    /\ Len(heard) = ChunkSize + 1
    /\ Len(Returned) = 2

\* The word timestamps do not decrease and the words do not overlap.
WordsInOrder(ws) ==
    /\ \A i \in 1..Len(ws) : ws[i].start <= ws[i].end
    /\ \A i \in 1..(Len(ws) - 1) : ws[i].end <= ws[i + 1].start

\* C16: for words in time order that do not overlap, every caption has
\* startTime <= endTime and caption k ends no later than caption k+1
\* starts.
C16_CaptionsInOrder ==
    (resp.op = "captions" /\ WordsInOrder(heard)) =>
        /\ \A k \in 1..Len(Returned) :
              Returned[k].startTime <= Returned[k].endTime
        /\ \A k \in 1..(Len(Returned) - 1) :
              Returned[k].endTime <= Returned[k + 1].startTime

\* The request to the speech service failed, or what came back is no
\* object with a word list.
LacksWordList(reply) ==
    \/ reply.kind # "object"
    \/ reply.words.type # "array"

\* C17: transcribe fails with an external-service error whenever the HTTP
\* call errors or the response body is not a transcript with a word list;
\* it never answers success from such a response.
C17_BadReplyFails ==
    [][\A i \in 1..MaxCalls, reply \in Replies :
          (LacksWordList(reply) /\ UploadDone(i, reply)) =>
             resp'.op = "transcribe" /\ resp'.code = 500]_vars

\* C18: the three failures of transcribe (no source media, audio
\* extraction, speech-to-text service) reach the caller as three different
\* error kinds: no two of them are answered with the same status.
C18_FailuresDistinct ==
    \A p \in reported, q \in reported : p[1] # q[1] => p[2] # q[2]

\* The temporary audio files on disk.
TempFiles == {f \in files : startsWith(f, TempAudioPrefix)}

\* The step deletes nothing.
NothingDeleted == files \subseteq files'

Parsed(reply) == reply.kind \notin {"error", "text"}

NotFound(r) == r.code = 404

\* The answer is the process error of POST /clip.
ProcessError(r) == r.code = 500 /\ r.body.error = "Clip creation failed"

\* C20: extractClip answers success {filename, sizeBytes} only when the
\* tool exited with status zero and the output file exists; a nonzero exit
\* gives a process error, and a zero exit with the output file absent gives
\* a not-found error.
C20_ClipOutcome ==
    [][\A i \in 1..MaxCalls, code \in ExitCodes, w \in BOOLEAN :
          ClipDone(i, code, w) =>
             /\ resp'.code = 200 =>
                   /\ code = 0
                   /\ execs[i].output \in files'
                   /\ resp'.body.filename = execs[i].output
             /\ code # 0 => ProcessError(resp')
             /\ (code = 0 /\ execs[i].output \notin files') =>
                   NotFound(resp')]_vars

\* C20 without its last case: success only after exit 0 with the output
\* on disk, and a process error after a nonzero exit.
C20_SuccessAndProcessError ==
    [][\A i \in 1..MaxCalls, code \in ExitCodes, w \in BOOLEAN :
          ClipDone(i, code, w) =>
             /\ resp'.code = 200 =>
                   /\ code = 0
                   /\ execs[i].output \in files'
                   /\ resp'.body.filename = execs[i].output
             /\ code # 0 => ProcessError(resp')]_vars

-----------------------------------------------------------------------------
(* Queue and media together: properties. *)

\* A step of POST /clip or POST /transcribe: the handler, the callback of
\* its ffmpeg process, or the end of its upload.  Each of them starts or
\* ends a child process or an upload, or answers the request.
MediaCall ==
    \/ execs' # execs
    \/ uploads' # uploads
    \/ resp'.op \in {"clip", "transcribe"}

\* C21: a step of a clip or transcribe call, succeeding or failing, at any
\* point of a drain, leaves the job queue, every job's fields, the
\* active-job pointer and the draining flag as they were.
C21_MediaLeavesQueue ==
    [][MediaCall =>
          UNCHANGED <<downloadQueue, items, currentDownload,
                      isProcessing>>]_vars

\* A media call has just failed while the drain loop is downloading a
\* job whose subprocess has already reported progress.
C21_Witness ==
    /\ resp.op \in {"clip", "transcribe"}
    /\ resp.code = 500
    /\ isProcessing
    /\ Len(downloadQueue) >= 1
    /\ currentDownload = downloadQueue[1]
    /\ items[currentDownload].status = "downloading"
    /\ items[currentDownload].progress = 50

-----------------------------------------------------------------------------
(* File endpoints: properties. *)

\* The filename holds '..', a forward slash or a backslash.
Traversing(f) ==
    \/ includes(f, <<".", ".">>)
    \/ includes(f, <<"/">>)
    \/ includes(f, <<"\\">>)

\* C22: a delete request whose filename holds '..', '/' or '\' is
\* rejected and deletes nothing, and no delete request removes a file
\* outside DOWNLOAD_DIR.
C22_TraversalRejected ==
    [][\A f \in FileNames :
          DeleteFile(f) =>
             /\ elsewhere' = elsewhere
             /\ Traversing(f) =>
                   /\ resp'.code = 400
                   /\ files' = files]_vars

-----------------------------------------------------------------------------
(* Downloads: further properties. *)

\* The yt-dlp child processes that run: those spawned whose executable
\* started and that have not ended.
Running == {i \in 1..Len(procs) : ~procs[i].errored}

\* C23: at most one yt-dlp subprocess runs at any instant, whether the
\* drain loop or POST /download started it.
C23_AtMostOneSubprocess == Cardinality(Running) <= 1

\* The drain loop has just marked job object h complete or failed.
Settled(h) ==
    /\ done # NoItem
    /\ done.job = h
    /\ done.item.status \in {"complete", "error"}

\* C24: when every started subprocess ends, an enqueued job that is never
\* cancelled becomes downloading, and once downloading it becomes complete
\* or failed, whatever enqueue and cancel requests arrive meanwhile.
C24_EveryJobRuns ==
    \A h \in 1..MaxJobs :
        /\ (h \in enqueued) ~> (h \in started \/ h \in cancelled)
        /\ (h \in DownloadingJobs) ~> (Settled(h) \/ h \in cancelled)

\* C25: two job objects, created by different POST /queue/add or
\* POST /download requests, have different ids (and so different result
\* file names video_<id>.mp4), whenever the requests arrive.
C25_DistinctIds ==
    \A a \in DOMAIN items, b \in DOMAIN items :
        a # b => /\ items[a].id # items[b].id
                 /\ VideoName(items[a].id) # VideoName(items[b].id)

\* The job records that can be seen: those of the reachable job objects,
\* and the one the drain loop settled in the last step.
Visible ==
    {items[h] : h \in DOMAIN items}
        \cup (IF done = NoItem THEN {} ELSE {done.item})

\* C26: a job has a filename only if its status is complete; a job that
\* is downloading or failed has none, whatever yt-dlp printed.
C26_FilenameOnlyWhenComplete ==
    \A it \in Visible : it.filename # NoFile => it.status = "complete"

\* The drain loop has just decided job object h: status and message.
Decided(h, status) ==
    /\ done' # NoItem
    /\ done'.job = h
    /\ done'.item.status = status

\* The step removes process i from the pending ones (its close event), or
\* marks it as one whose executable did not start (its error event).
Closes(i) == \A j \in 1..Len(procs') : procs'[j].item # procs[i].item
Errors(i) ==
    /\ ~procs[i].errored
    /\ \E j \in 1..Len(procs') :
          procs'[j].item = procs[i].item /\ procs'[j].errored

\* C27: a run of yt-dlp for a job of the drain loop has one outcome:
\* complete exactly when the process closes with code 0, failed with the
\* exit code in the message when it closes with another code, failed with
\* the spawn error and no exit code when the executable does not start;
\* the close event that follows an error event decides nothing, leaves the
\* queue and the jobs as they are and starts no process.
C27_OneOutcomePerRun ==
    [][procs' # procs =>
          \A i \in 1..Len(procs) :
             /\ (Closes(i) /\ (procs[i].errored \/ procs[i].owner = "queue")) =>
                   \A code \in ExitCodes :
                      ProcClose(i, code, TRUE) =>
                         IF procs[i].errored
                         THEN /\ done' = NoItem
                              /\ downloadQueue' = downloadQueue
                              /\ currentDownload' = currentDownload
                              /\ isProcessing' = isProcessing
                              /\ procs' = RemoveAt(procs, i)
                              /\ \A h \in DOMAIN items' : items'[h] = items[h]
                         ELSE IF code = 0
                              THEN Decided(procs[i].item, "complete")
                              ELSE /\ Decided(procs[i].item, "error")
                                   /\ done'.item.error = ExitMessage(code)
             /\ (Errors(i) /\ procs[i].owner = "queue" /\ ProcError(i)) =>
                   /\ Decided(procs[i].item, "error")
                   /\ done'.item.error = SpawnMessage]_vars

\* The executable of a job did not start: the error event has failed the
\* job without an exit code, and its close event is still to come while
\* the drain loop already downloads the next job.
C27_Witness ==
    /\ done # NoItem
    /\ done.item.status = "error"
    /\ done.item.error = SpawnMessage
    /\ \E i \in 1..Len(procs) : procs[i].errored /\ procs[i].item = done.job
    /\ \E i \in 1..Len(procs) : ~procs[i].errored /\ procs[i].owner = "queue"

\* The drain loop sets a job downloading and spawns yt-dlp for it in one
\* piece of code, so that a job is handed to yt-dlp when it becomes
\* downloading.
BecomesDownloading(h) ==
    /\ h \in DOMAIN items'
    /\ items'[h].origin = "enqueue"
    /\ items'[h].status = "downloading"
    /\ \/ h \notin DownloadingJobs
       \/ done' # NoItem /\ done'.job = h

\* C28: the drain loop hands a job to yt-dlp at most once: a job that
\* becomes downloading has never been downloading before, and the job the
\* loop has just marked complete or failed does not become downloading
\* again; no job has two yt-dlp processes.
C28_DownloadedAtMostOnce ==
    [][/\ \A h \in DOMAIN items' :
             BecomesDownloading(h) =>
                /\ h \notin started
                /\ ~(done' # NoItem /\ done'.job = h)
       /\ \A i \in 1..Len(procs'), j \in 1..Len(procs') :
             procs'[i].item = procs'[j].item => i = j]_vars

\* A download has just failed; its job has left the queue and the loop
\* has spawned yt-dlp for the next job.
C28_Witness ==
    /\ done # NoItem
    /\ done.item.status = "error"
    /\ done.job \notin Range(downloadQueue)
    /\ \E i \in 1..Len(procs) :
          /\ procs[i].owner = "queue"
          /\ ~procs[i].errored
          /\ procs[i].item # done.job
          /\ procs[i].item = currentDownload

\* The last percentage a chunk holds.
LatestMatch(chunk) == chunk.pcts[Len(chunk.pcts)]

\* C29: after a chunk of yt-dlp's output that holds a percentage, the
\* progress of its downloading job is the latest percentage of that chunk,
\* lower or higher than before; a chunk without one leaves it as it was (0
\* before any match).
C29_LatestMatchWins ==
    [][\A i \in 1..Len(procs), c \in TwoPctChunks :
          (procs' = procs /\ ProcStdout(i, c)) =>
             LET job == procs[i].item IN
             items[job].status = "downloading" =>
                items'[job].progress =
                   IF Len(c.pcts) > 0 THEN LatestMatch(c)
                   ELSE items[job].progress]_vars

\* C29 for the chunks that hold at most one percentage.
C29_SingleMatchWins ==
    [][\A i \in 1..Len(procs), c \in TwoPctChunks :
          (procs' = procs /\ Len(c.pcts) <= 1 /\ ProcStdout(i, c)) =>
             LET job == procs[i].item IN
             items[job].status = "downloading" =>
                items'[job].progress =
                   IF Len(c.pcts) > 0 THEN LatestMatch(c)
                   ELSE items[job].progress]_vars

\* C30: a job whose status is complete has progress 100 and the filename
\* video_<id>.mp4 of its own id.
C30_CompleteHasResult ==
    \A it \in Visible :
        it.status = "complete" =>
            /\ it.progress = 100
            /\ it.filename = VideoName(it.id)

\* The drain loop has just completed a job that was enqueued after the
\* clock moved, while a job with another id is in the queue or downloading.
C30_Witness ==
    /\ done # NoItem
    /\ done.item.status = "complete"
    /\ done.item.id = 1
    /\ \E h \in DOMAIN items : items[h].id # done.item.id

-----------------------------------------------------------------------------
(* Downloads and media together: properties. *)

\* C31: the -i of the ffmpeg command POST /clip or POST /transcribe starts
\* is the file of the download that completed last, in whatever order the
\* enqueue, legacy download, cancel and completion events came.
C31_SourceIsLastCompleted ==
    [][Len(execs') > Len(execs) =>
          execs'[Len(execs')].input = lastWritten]_vars

\* C32: whenever the queue holds a job, isProcessing is true and the
\* drain loop awaits a yt-dlp process: no enqueue, cancel or completion
\* leaves a job in the queue with no loop running.
C32_QueuedImpliesDraining ==
    Len(downloadQueue) > 0 =>
        /\ isProcessing
        /\ \E i \in 1..Len(procs) : Awaited(i)

\* The loop has stopped after a first job and a later enqueue has started
\* it again: the new job is the only one in the queue and downloading.
C32_Witness ==
    /\ resp.op = "add" /\ resp.code = 200
    /\ resp.body.queuePosition = 1
    /\ Cardinality(started) = 2
    /\ procs = <<[item |-> 2, owner |-> "queue", errored |-> FALSE]>>
    /\ isProcessing

\* The jobs a GET /queue/status body shows.
Shown(body) ==
    {body.queue[i] : i \in 1..Len(body.queue)}
        \cup {body.currentDownload[i] : i \in 1..Len(body.currentDownload)}

\* C33: no body of GET /queue/status shows a job whose status is complete
\* or error, in its queue or as its currentDownload.
C33_NoTerminalJobShown ==
    resp.op = "status" =>
        \A it \in Shown(resp.body) : it.status \notin {"complete", "error"}

\* A status request after the loop has settled the first job and gone on
\* to the second: the body shows the second, downloading.
C33_Witness ==
    /\ resp.op = "status"
    /\ started = {1, 2}
    /\ Len(resp.body.queue) = 1
    /\ Len(resp.body.currentDownload) = 1
    /\ resp.body.currentDownload[1].status = "downloading"
    /\ Len(procs) = 1

\* C34: with GROQ_API_KEY unset, POST /transcribe answers 500 at once:
\* whatever DOWNLOAD_DIR holds (it is not read, so an empty one gives no
\* 404), no ffmpeg process is started and no file is created.
C34_NoKeyFailsFirst ==
    [][\A s \in TimeTypes, e \in TimeTypes :
          (~apiKey /\ TranscribeRequest(s, e)) =>
             /\ resp'.code = 500
             /\ execs' = execs
             /\ files' = files]_vars

\* ------------------------------------------------------------------
\* The timeline editor of the page (clipEditor.ts, js/clipEditor.js).
\* Times are whole seconds.
\* ------------------------------------------------------------------

MaxDuration == 8   \* videoElement.duration takes the values 1..MaxDuration

\* What the editor never assigns: the whole server.
offEditor == <<server, now, created, items, downloadQueue, currentDownload,
               isProcessing, procs, resp, done, enqueued, started,
               cancelled, polled, apiKey, files, execs, uploads, heard,
               reported, elsewhere, lastWritten>>

MathMin(a, b) == IF a < b THEN a ELSE b
MathMax(a, b) == IF a > b THEN a ELSE b

\* Utils.clamp: Math.min(Math.max(value, min), max).
clamp(value, min, max) == MathMin(MathMax(value, min), max)

\* The 'loadedmetadata' event of the video element.
onVideoLoaded(videoDuration) ==
    /\ editor' = [editor EXCEPT
                    !.duration = videoDuration,
                    !.clipStart = 0,
                    !.clipEnd = MathMin(editor.clipDuration, videoDuration)]
    /\ UNCHANGED offEditor

\* mousedown or touchstart on a handle or on the range.
startDrag(target) ==
    /\ editor' = [editor EXCEPT
                    !.isDragging = TRUE,
                    !.dragTarget = target,
                    !.dragStartClipStart = editor.clipStart,
                    !.dragStartClipEnd = editor.clipEnd]
    /\ UNCHANGED offEditor

\* The range drag of onDrag: the range keeps its length and stops at the
\* ends of the video.
DragRange(ed, deltaTime) ==
    LET rangeDuration == ed.dragStartClipEnd - ed.dragStartClipStart
        movedStart == ed.dragStartClipStart + deltaTime
        movedEnd == ed.dragStartClipEnd + deltaTime
        leftStart == IF movedStart < 0 THEN 0 ELSE movedStart
        leftEnd == IF movedStart < 0 THEN rangeDuration ELSE movedEnd
        newStart == IF leftEnd > ed.duration
                    THEN ed.duration - rangeDuration ELSE leftStart
        newEnd == IF leftEnd > ed.duration THEN ed.duration ELSE leftEnd
    IN  [ed EXCEPT !.clipStart = newStart, !.clipEnd = newEnd]

\* mousemove or touchmove: deltaTime is (deltaX / containerWidth) *
\* duration, the distance the pointer has moved since startDrag.
onDrag(deltaTime) ==
    /\ editor.isDragging
    /\ editor' =
         CASE editor.dragTarget = "start" ->
                [editor EXCEPT !.clipStart =
                    clamp(editor.dragStartClipStart + deltaTime, 0,
                          editor.clipEnd - 5)]
           [] editor.dragTarget = "end" ->
                [editor EXCEPT !.clipEnd =
                    clamp(editor.dragStartClipEnd + deltaTime,
                          editor.clipStart + 5, editor.duration)]
           [] editor.dragTarget = "range" -> DragRange(editor, deltaTime)
           [] OTHER -> editor
    /\ UNCHANGED offEditor

\* mouseup or touchend.
endDrag ==
    /\ editor' = [editor EXCEPT !.isDragging = FALSE,
                                !.dragTarget = "null"]
    /\ UNCHANGED offEditor

\* The 'i' key: setInPoint(videoElement.currentTime).
setInPoint(time) ==
    /\ editor' = [editor EXCEPT !.clipStart =
                    clamp(time, 0, editor.clipEnd - 5)]
    /\ UNCHANGED offEditor

\* The 'o' key: setOutPoint(videoElement.currentTime).
setOutPoint(time) ==
    /\ editor' = [editor EXCEPT !.clipEnd =
                    clamp(time, editor.clipStart + 5, editor.duration)]
    /\ UNCHANGED offEditor

\* The duration buttons of the page: selectDuration(30 | 60).
ClipDurations == {30, 60}

setClipDuration(duration) ==
    /\ editor' = [editor EXCEPT
                    !.clipDuration = duration,
                    !.clipEnd = MathMin(editor.clipStart + duration,
                                        editor.duration)]
    /\ UNCHANGED offEditor

\* The duration buttons work at any time; one video loads, and then the
\* user works on the timeline: the playhead is anywhere in the video, the
\* pointer moves by up to its length.
NextEditor ==
    \/ \E duration \in ClipDurations : setClipDuration(duration)
    \/ \E videoDuration \in 1..MaxDuration :
          editor.duration = 0 /\ onVideoLoaded(videoDuration)
    \/ \E target \in {"start", "end", "range"} :
          editor.duration > 0 /\ startDrag(target)
    \/ \E deltaTime \in -MaxDuration..MaxDuration :
          editor.duration > 0 /\ onDrag(deltaTime)
    \/ editor.duration > 0 /\ endDrag
    \/ \E time \in 0..editor.duration :
          editor.duration > 0 /\ setInPoint(time)
    \/ \E time \in 0..editor.duration :
          editor.duration > 0 /\ setOutPoint(time)

SpecEditor == Init /\ [][NextEditor]_vars

\* ------------------------------------------------------------------
\* The timeline editor: properties.
\* ------------------------------------------------------------------

\* C35: once a video has loaded, whatever the user does with the in and
\* out keys, the duration buttons, the handles and the range, the clip
\* range lies within the video and is at least 5 seconds long:
\* 0 <= clipStart, clipEnd <= duration and clipEnd - clipStart >= 5.
C35_ClipRangeValid ==
    editor.duration > 0 =>
        /\ 0 <= editor.clipStart
        /\ editor.clipEnd <= editor.duration
        /\ editor.clipEnd - editor.clipStart >= 5

====
